---------------------------- MODULE Spec2Model ----------------------------
(***************************************************************************)
(* Model of src/main.py: XServerAutoLogin.run and the handlers it calls.   *)
(* One run of the script is a sequential program; pc is the handler that   *)
(* executes next.  The target site, the browser and the mail service are   *)
(* the environment: every URL read, every selector wait, every click and   *)
(* every HTTP call draws its outcome from a small set with \E.             *)
(*                                                                         *)
(* A URL is a sequence of chunks whose concatenation is the URL string;    *)
(* "a in b" of the source is Contains(a, b), "a == b" is equality.         *)
(* Exceptions come from the calls into the environment (a selector wait    *)
(* that times out, a click, a text read, a file or HTTP call that fails);  *)
(* each handler catches them in its own try.  run_raise stands for an      *)
(* Exception of a statement of run itself, which only run's except clause  *)
(* catches.  The except blocks themselves are taken to complete.           *)
(***************************************************************************)
EXTENDS Integers, Sequences, FiniteSets, TLC

-----------------------------------------------------------------------------
(* Bounds of the model *)

\* longest mail list the list query returns in the model
MaxMails == 2

-----------------------------------------------------------------------------
(* URLs and URL tests *)

Host == "https://secure.xserver.ne.jp"

TARGET_URL == <<Host, "/xapanel/login/xmgame">>
success_url == <<Host, "/xapanel/xmgame/index">>
challenge_pattern == <<"loginauth/index">>
code_input_pattern == <<"loginauth/smssend">>
expected_game_url == <<Host, "/xmgame/game/index">>
expected_upgrade_url == <<Host, "/xmgame/game/freeplan/extend/index">>
expected_input_url == <<Host, "/xmgame/game/freeplan/extend/input">>
expected_conf_url == <<Host, "/xmgame/game/freeplan/extend/conf">>
expected_do_url == <<Host, "/xmgame/game/freeplan/extend/do">>

\* the URLs the site can show; "?sid=1" is a session-specific query string
URLs ==
  { TARGET_URL,
    success_url,
    success_url \o <<"?sid=1">>,
    <<Host, "/xapanel/">> \o challenge_pattern,
    <<Host, "/xapanel/">> \o code_input_pattern \o <<"?sid=1">>,
    expected_game_url,
    expected_game_url \o <<"?sid=1">>,
    expected_upgrade_url,
    expected_input_url \o <<"?sid=1">>,
    expected_conf_url,
    expected_do_url,
    <<Host, "/error">> }

\* Python "pat in url" on strings, chunk by chunk
Contains(pat, url) ==
  \E i \in 0..(Len(url) - Len(pat)) :
     \A j \in 1..Len(pat) : url[i + j] = pat[j]

\* a substring test where the source compares for equality
SameUrl_Substring(url, expected) == Contains(expected, url)

\* Python "url == expected"
SameUrl(url, expected) == url = expected

\* the code-entry test made with the pattern of the challenge page
IsCodeInputPage_WrongPattern(url) == Contains(challenge_pattern, url)

\* "loginauth/smssend" in current_url
IsCodeInputPage(url) == Contains(code_input_pattern, url)

-----------------------------------------------------------------------------
(* Values of the renewal record *)

\* None, and the Python booleans of run, as strings
NoneVal == "None"
\* no code: None of the fetcher (a code is never the empty string)
NoCode == <<>>
\* no file written yet
NoFile == <<>>
\* a field generate_readme leaves out of the report
Omitted == "<omitted>"
\* README.md before generate_readme has written it
NoReport == [status |-> NoneVal, old |-> NoneVal, new |-> NoneVal]
StatusValues == {"Unknown", "Success", "Unexpired", "Failed"}

\* values of XSERVER_EMAIL and XSERVER_PASSWORD: unset, empty, the
\* placeholder main rejects, and a real value
PlaceholderEmail == "your_email@example.com"
PlaceholderPassword == "your_password"
EmailValues == {NoneVal, "", PlaceholderEmail, "user@example.com"}
PasswordValues == {NoneVal, "", PlaceholderPassword, "secret"}

\* Python truth value of an optional string
Truthy(v) == v # NoneVal /\ v # ""

\* exit_code while the process has not exited
NoExit == -1

\* list_code while there is no response of the list endpoint
NoResponse == 0
\* dates format_expiry_date can return for the dashboard text
OldDates == {"2025-09-24"}
\* stripped texts of the "new expiry" cell; "" is an empty cell
NewDates == {"", "2025-09-26 12:00"}

Controls ==
  {"login_submit", "send_code", "code_submit", "game_management",
   "upgrade", "extend", "confirm", "final_extend"}

RenewalControls == {"game_management", "upgrade", "extend", "confirm", "final_extend"}


-----------------------------------------------------------------------------
(* Mail service data and the pure functions of the fetcher *)

\* strings of the mail model are sequences of one-character strings;
\* "M" stands for the marker token, " " for any whitespace character
Whitespace == {" "}
Digits == {"0", "1", "2", "3", "4", "5", "6", "7", "8", "9"}
Colons == {":"}
Marker == "M"

cloudmail_subject == <<"X", "S">>

RECURSIVE LStrip(_)
LStrip(s) == IF s # <<>> /\ Head(s) \in Whitespace THEN LStrip(Tail(s)) ELSE s

RECURSIVE RStrip(_)
RStrip(s) ==
  IF s # <<>> /\ s[Len(s)] \in Whitespace THEN RStrip(SubSeq(s, 1, Len(s) - 1)) ELSE s

\* only leading whitespace is removed
Strip_LeftOnly(s) == LStrip(s)

\* str.strip()
Strip(s) == RStrip(LStrip(s))

\* number of consecutive characters of set cs in s from position i on
RECURSIVE RunLen(_, _, _)
RunLen(s, i, cs) ==
  IF i <= Len(s) /\ s[i] \in cs THEN 1 + RunLen(s, i + 1, cs) ELSE 0

Min(a, b) == IF a < b THEN a ELSE b

\* a match that captures the whole digit run, however short or long
MatchAt_AnyRun(body, i) ==
  IF i > Len(body) \/ body[i] # Marker THEN <<>>
  ELSE LET w1 == RunLen(body, i + 1, Whitespace)
           c  == i + 1 + w1
       IN IF w1 = 0 \/ c > Len(body) \/ body[c] \notin Colons THEN <<>>
          ELSE LET w2 == RunLen(body, c + 1, Whitespace)
                   d  == c + 1 + w2
                   n  == RunLen(body, d, Digits)
               IN SubSeq(body, d, d + n - 1)

\* the group captured when the pattern
\*   marker [\s]+ [:] \s* (\d{4,8})
\* matches at position i of body, <<>> when it does not match there
MatchAt(body, i) ==
  IF i > Len(body) \/ body[i] # Marker THEN <<>>
  ELSE LET w1 == RunLen(body, i + 1, Whitespace)
           c  == i + 1 + w1
       IN IF w1 = 0 \/ c > Len(body) \/ body[c] \notin Colons THEN <<>>
          ELSE LET w2 == RunLen(body, c + 1, Whitespace)
                   d  == c + 1 + w2
                   n  == Min(RunLen(body, d, Digits), 8)
               IN IF n < 4 THEN <<>> ELSE SubSeq(body, d, d + n - 1)

\* _extract_verification_code: first match of re.findall, None without one
_extract_verification_code(mail_content) ==
  LET hits == {i \in 1..Len(mail_content) : MatchAt(mail_content, i) # <<>>}
  IN IF hits = {} THEN NoCode
     ELSE MatchAt(mail_content, CHOOSE i \in hits : \A k \in hits : i <= k)

\* mails the list endpoint can return: subject, text and content fields
Bodies ==
  { <<"M", " ", ":", " ", "1", "2", "3", "4">>,
    <<"M", ":", "1", "2", "3", "4">>,
    <<"a", "1", "2", "3", "4">>,
    <<"M", " ", ":", "1", "2", "3">>,
    <<"M", " ", ":", "1", "2", "3", "4", "5", "6", "7", "8", "9">>,
    <<>> }

Subjects == { cloudmail_subject, <<" ">> \o cloudmail_subject \o <<" ">>, <<"X">> }

Mails == [subject : Subjects, text : Bodies, content : {<<>>}]

RECURSIVE SeqsUpTo(_, _)
SeqsUpTo(S, n) ==
  IF n = 0 THEN {<<>>}
  ELSE LET shorter == SeqsUpTo(S, n - 1)
       IN shorter \cup {Append(q, x) : q \in {r \in shorter : Len(r) = n - 1}, x \in S}

MailLists == SeqsUpTo(Mails, MaxMails)

\* the list comprehension of step 4: mails whose stripped subject equals the configured one
FilterMails(list) ==
  SelectSeq(list, LAMBDA mail : Strip(mail.subject) = cloudmail_subject)

\* mail.get('text', '') or mail.get('content', '') of the first stored mail
MailContent(stored) ==
  IF stored = <<>> THEN <<>>
  ELSE IF stored[1].text # <<>> THEN stored[1].text ELSE stored[1].content

\* _extract_code_from_json on the list that was read back from the file
_extract_code_from_json(stored) ==
  IF MailContent(stored) = <<>> THEN NoCode
  ELSE _extract_verification_code(MailContent(stored))

-----------------------------------------------------------------------------
(* State *)

VARIABLES
  pc,                  \* handler of run that executes next
  LOGIN_EMAIL,         \* XSERVER_EMAIL of the environment, also self.email
  LOGIN_PASSWORD,      \* XSERVER_PASSWORD of the environment, also self.password
  exit_code,           \* exit status of the process, NoExit while it runs
  browser,             \* self.browser: "none", "open" or "closed"
  context,             \* self.context: "none", "open" or "closed"
  current_url,         \* last value read from self.page.url
  verification_result, \* run's local verification_result
  verification_code,   \* value returned by get_verification_code_from_cloudmail
  token,               \* token of the token call, NoneVal before it
  mail_list,           \* mail_list local of the fetcher
  xserver_mails,       \* xserver_mails local of the fetcher
  mail_content,        \* mail_content local of _extract_code_from_json
  io_failed,           \* writing or reading the mail file raised in this fetch
  list_code,           \* code of the list response, NoResponse without one
  saved_file,          \* content of the JSON file written by _save_mail_to_json
  token_calls,         \* number of POSTs to genToken
  list_calls,          \* number of POSTs to emailList
  typed_code,          \* text typed into the auth_code field
  renewal_status,      \* self.renewal_status
  old_expiry_time,     \* self.old_expiry_time
  new_expiry_time,     \* self.new_expiry_time
  clicked,             \* number of page.click calls that went through, per control
  goto_calls,          \* number of page.goto calls
  notice_present,      \* the restriction notice was located on the upgrade page
  text_success,        \* text_success local of verify_extension_success
  verify_raised,       \* verify_extension_success ended in its except block
  auth_state,          \* AuthFlow state the run is in
  auth_seen,           \* what the AuthFlow handlers have observed on the page
  renewal_state,       \* RenewalFlow state the run is in
  mismatch_seen,       \* a RenewalFlow URL check found an unexpected URL
  control_missing,     \* a RenewalFlow control was not found within its timeout
  readme_calls,        \* number of calls of generate_readme
  report,              \* content of README.md, NoReport while not written
  cleanup_calls,       \* number of calls of cleanup
  result               \* return value of run, NoneVal while running

vars ==
  << pc, LOGIN_EMAIL, LOGIN_PASSWORD, exit_code, browser, context, current_url,
     verification_result, verification_code, token, mail_list, xserver_mails,
     mail_content, io_failed, list_code, saved_file,
     token_calls, list_calls, typed_code, renewal_status, old_expiry_time,
     new_expiry_time, clicked, goto_calls, notice_present, text_success,
     verify_raised, auth_state, auth_seen,
     renewal_state, mismatch_seen, control_missing, readme_calls, report,
     cleanup_calls, result >>

\* variable groups used in UNCHANGED
mainVars == << LOGIN_EMAIL, LOGIN_PASSWORD, exit_code >>
browserVars == << browser, context >>
fetchVars ==
  << verification_code, token, mail_list, xserver_mails, mail_content, io_failed,
     saved_file,
     token_calls, list_calls, list_code >>
recordVars == << renewal_status, old_expiry_time, new_expiry_time >>
signalVars == << text_success, verify_raised >>
renewalGhost ==
  << notice_present, renewal_state, mismatch_seen, control_missing, signalVars >>
reportVars == << readme_calls, report >>

\* the module-level configuration and XServerAutoLogin.__init__
Init ==
  /\ pc = "main"
  /\ LOGIN_EMAIL \in EmailValues
  /\ LOGIN_PASSWORD \in PasswordValues
  /\ exit_code = NoExit
  /\ browser = "none"
  /\ context = "none"
  /\ current_url = <<>>
  /\ verification_result = NoneVal
  /\ verification_code = NoCode
  /\ token = NoneVal
  /\ mail_list = <<>>
  /\ xserver_mails = <<>>
  /\ mail_content = <<>>
  /\ io_failed = FALSE
  /\ list_code = NoResponse
  /\ saved_file = NoFile
  /\ token_calls = 0
  /\ list_calls = 0
  /\ typed_code = NoCode
  /\ renewal_status = "Unknown"
  /\ old_expiry_time = NoneVal
  /\ new_expiry_time = NoneVal
  /\ clicked = [c \in Controls |-> 0]
  /\ goto_calls = 0
  /\ notice_present = FALSE
  /\ text_success = FALSE
  /\ verify_raised = FALSE
  /\ auth_state = "LoginPage"
  /\ auth_seen = {}
  /\ renewal_state = "None"
  /\ mismatch_seen = FALSE
  /\ control_missing = FALSE
  /\ readme_calls = 0
  /\ report = NoReport
  /\ cleanup_calls = 0
  /\ result = NoneVal

-----------------------------------------------------------------------------
(* run, steps 1 to 4, and the AuthFlow handlers *)

\* a return that leaves run without passing through the finally clause
ReturnFalse_NoCleanup ==
  /\ result' = "False"
  /\ pc' = "done"

\* a failure that is returned as success
ReturnFalse_ReturnsTrue ==
  /\ result' = "True"
  /\ pc' = "cleanup"

\* "return False" of run: the finally clause runs next
ReturnFalse ==
  /\ result' = "False"
  /\ pc' = "cleanup"

\* a control that is activated a second time
Click_Again(c) == clicked' = [clicked EXCEPT ![c] = @ + 2]

\* page.click on control c
Click(c) == clicked' = [clicked EXCEPT ![c] = @ + 1]

\* outcomes of "wait_for_selector then click" on one control
ClickOutcomes == {"clicked", "not_found", "click_failed"}

\* everything main leaves unchanged
runVars ==
  << browserVars, current_url, verification_result, fetchVars, typed_code,
     recordVars, clicked, goto_calls, renewalGhost, auth_state, auth_seen, reportVars,
     cleanup_calls, result >>

\* exit status main gives for the value run returned
ExitCodeFor(success) == IF success = "True" THEN 0 ELSE 1

\* main up to the call of run: len(LOGIN_PASSWORD) raises a TypeError for an
\* unset password (exit status 1), the placeholder check returns from main
main_start ==
  /\ pc = "main"
  /\ IF LOGIN_PASSWORD = NoneVal
       THEN exit_code' = 1 /\ pc' = "exited"
       ELSE IF LOGIN_EMAIL = PlaceholderEmail \/ LOGIN_PASSWORD = PlaceholderPassword
              THEN exit_code' = 0 /\ pc' = "exited"
              ELSE exit_code' = exit_code /\ pc' = "validate"
  /\ UNCHANGED << LOGIN_EMAIL, LOGIN_PASSWORD, runVars >>

\* main after run returned: exit(0) or exit(1)
main_exit ==
  /\ pc = "done"
  /\ exit_code' = ExitCodeFor(result)
  /\ pc' = "exited"
  /\ UNCHANGED << LOGIN_EMAIL, LOGIN_PASSWORD, runVars >>

\* validate_config and its use in run
validate_config ==
  /\ pc = "validate"
  /\ IF Truthy(LOGIN_EMAIL) /\ Truthy(LOGIN_PASSWORD)
       THEN pc' = "setup" /\ UNCHANGED result
       ELSE ReturnFalse
  /\ UNCHANGED << mainVars, browserVars, current_url, verification_result,
                  fetchVars, typed_code, recordVars, clicked, goto_calls,
                  renewalGhost, auth_state, auth_seen, reportVars, cleanup_calls >>

\* setup_browser: launch, new_context, new_page and stealth can each fail
setup_browser ==
  /\ pc = "setup"
  /\ \E o \in {"ok", "launch_failed", "context_failed", "page_failed"} :
       /\ browser' = IF o = "launch_failed" THEN "none" ELSE "open"
       /\ context' = IF o \in {"launch_failed", "context_failed"} THEN "none" ELSE "open"
       /\ IF o = "ok" THEN pc' = "navigate" /\ UNCHANGED result ELSE ReturnFalse
  /\ UNCHANGED << mainVars, current_url, verification_result, fetchVars,
                  typed_code, recordVars, clicked, goto_calls, renewalGhost,
                  auth_state, auth_seen, reportVars, cleanup_calls >>

\* navigate_to_login
navigate_to_login ==
  /\ pc = "navigate"
  /\ goto_calls' = goto_calls + 1
  /\ \E loaded \in BOOLEAN :
       IF loaded THEN pc' = "login" /\ UNCHANGED << result, auth_state >>
       ELSE ReturnFalse /\ auth_state' = "Failed"
  /\ UNCHANGED << mainVars, browserVars, current_url, verification_result,
                  fetchVars, typed_code, recordVars, clicked, renewalGhost,
                  auth_seen, reportVars, cleanup_calls >>

\* perform_login with find_login_form and human_type
perform_login ==
  /\ pc = "login"
  /\ \E o \in {"form_missing", "fill_failed", "click_failed", "submitted"} :
       IF o = "submitted"
         THEN /\ Click("login_submit")
              /\ auth_state' = "Submitting"
              /\ pc' = "verify"
              /\ UNCHANGED result
         ELSE /\ ReturnFalse
              /\ auth_state' = "Failed"
              /\ UNCHANGED clicked
  /\ UNCHANGED << mainVars, browserVars, current_url, verification_result,
                  fetchVars, typed_code, recordVars, goto_calls, renewalGhost,
                  auth_seen, reportVars, cleanup_calls >>

\* handle_verification_page, the URL test
handle_verification_page ==
  /\ pc = "verify"
  /\ \E url \in URLs :
       /\ current_url' = url
       /\ IF Contains(challenge_pattern, url)
            THEN /\ auth_state' = "ChallengePage"
                 /\ auth_seen' = auth_seen \cup {"challenge_url"}
                 /\ pc' = "send_code"
                 /\ UNCHANGED verification_result
            ELSE /\ verification_result' = "True"
                 /\ pc' = "after_verify"
                 /\ UNCHANGED << auth_state, auth_seen >>
  /\ UNCHANGED << mainVars, browserVars, fetchVars, typed_code, recordVars,
                  clicked, goto_calls, renewalGhost, reportVars, cleanup_calls,
                  result >>

\* handle_verification_page, the send-code button
send_verification_code ==
  /\ pc = "send_code"
  /\ \E o \in ClickOutcomes :
       IF o = "clicked"
         THEN /\ Click("send_code")
              /\ pc' = "code_input"
              /\ UNCHANGED << verification_result, auth_state >>
         ELSE /\ verification_result' = "False"
              /\ auth_state' = "Failed"
              /\ pc' = "after_verify"
              /\ UNCHANGED clicked
  /\ UNCHANGED << mainVars, browserVars, current_url, fetchVars, typed_code,
                  recordVars, goto_calls, renewalGhost, auth_seen, reportVars,
                  cleanup_calls, result >>

\* handle_code_input_page, the URL test
handle_code_input_page ==
  /\ pc = "code_input"
  /\ \E url \in URLs :
       /\ current_url' = url
       /\ IF IsCodeInputPage(url)
            THEN /\ auth_state' = "CodeEntryPage"
                 /\ auth_seen' = auth_seen \cup {"code_entry_url"}
                 /\ pc' = "code_field"
                 /\ UNCHANGED verification_result
            ELSE /\ verification_result' = "True"
                 /\ pc' = "after_verify"
                 /\ UNCHANGED << auth_state, auth_seen >>
  /\ UNCHANGED << mainVars, browserVars, fetchVars, typed_code, recordVars,
                  clicked, goto_calls, renewalGhost, reportVars, cleanup_calls,
                  result >>

\* a missing code input field that is logged and then ignored
find_code_input_FetchesAnyway ==
  /\ pc = "code_field"
  /\ \E found \in BOOLEAN :
       /\ pc' = "fetch_wait"
       /\ auth_seen' = IF found THEN auth_seen \cup {"code_field"} ELSE auth_seen
       /\ UNCHANGED << verification_result, auth_state >>
  /\ UNCHANGED << mainVars, browserVars, current_url, fetchVars, typed_code,
                  recordVars, clicked, goto_calls, renewalGhost, reportVars,
                  cleanup_calls, result >>

\* handle_code_input_page, the wait for the code input field
find_code_input ==
  /\ pc = "code_field"
  /\ \E found \in BOOLEAN :
       IF found
         THEN /\ pc' = "fetch_wait"
              /\ auth_seen' = auth_seen \cup {"code_field"}
              /\ UNCHANGED << verification_result, auth_state >>
         ELSE /\ verification_result' = "False"
              /\ auth_state' = "Failed"
              /\ pc' = "after_verify"
              /\ UNCHANGED auth_seen
  /\ UNCHANGED << mainVars, browserVars, current_url, fetchVars, typed_code,
                  recordVars, clicked, goto_calls, renewalGhost, reportVars,
                  cleanup_calls, result >>

\* a wait for the mail that never elapses
grace_wait_NeverElapses ==
  /\ pc = "fetch_wait"
  /\ UNCHANGED vars

\* get_verification_code_from_cloudmail, the fixed wait for the mail
grace_wait ==
  /\ pc = "fetch_wait"
  /\ pc' = "fetch_token"
  /\ UNCHANGED << mainVars, browserVars, current_url, verification_result,
                  fetchVars, typed_code, recordVars, clicked, goto_calls,
                  renewalGhost, auth_state, auth_seen, reportVars, cleanup_calls, result >>

\* response codes of the mail service; -1 is the code the helpers return
\* for a transport error
TokenCodes == {200, 401, -1}
ListCodes == {200, 500, -1}

\* a token call whose failure is ignored
TokenAccepted_Always(code) == TRUE

\* token_result.get("code") == 200
TokenAccepted(code) == code = 200

\* get_verification_code_from_cloudmail, step 1, with _get_mail_api_token
get_mail_api_token ==
  /\ pc = "fetch_token"
  /\ token_calls' = token_calls + 1
  /\ \E code \in TokenCodes :
       /\ token' = IF code = 200 THEN "token" ELSE NoneVal
       /\ pc' = IF TokenAccepted(code) THEN "fetch_list" ELSE "code_result"
  /\ verification_code' = NoCode
  /\ UNCHANGED << mainVars, browserVars, current_url, verification_result,
                  mail_list, xserver_mails, mail_content, io_failed, saved_file, list_calls, list_code,
                  typed_code, recordVars, clicked, goto_calls, renewalGhost,
                  auth_state, auth_seen, reportVars, cleanup_calls, result >>

\* get_verification_code_from_cloudmail, steps 2 and 3, with _get_mail_list
get_mail_list ==
  /\ pc = "fetch_list"
  /\ list_calls' = list_calls + 1
  /\ \E code \in ListCodes, list \in MailLists :
       /\ list_code' = code
       /\ IF code = 200 /\ list # <<>>
            THEN mail_list' = list /\ pc' = "fetch_filter"
            ELSE mail_list' = <<>> /\ pc' = "code_result"
  /\ UNCHANGED << mainVars, browserVars, current_url, verification_result,
                  verification_code, token, xserver_mails, mail_content, io_failed, saved_file,
                  token_calls, typed_code, recordVars, clicked, goto_calls,
                  renewalGhost, auth_state, auth_seen, reportVars, cleanup_calls, result >>

\* get_verification_code_from_cloudmail, step 4: the local subject filter
filter_mails ==
  /\ pc = "fetch_filter"
  /\ xserver_mails' = FilterMails(mail_list)
  /\ pc' = IF xserver_mails' = <<>> THEN "code_result" ELSE "fetch_save"
  /\ UNCHANGED << mainVars, browserVars, current_url, verification_result,
                  verification_code, token, mail_list, mail_content, io_failed, saved_file,
                  token_calls,
                  list_calls, list_code, typed_code, recordVars, clicked,
                  goto_calls, renewalGhost, auth_state, auth_seen, reportVars,
                  cleanup_calls, result >>

\* the oldest matching mail is kept
LatestMail_Last(mails) == << mails[Len(mails)] >>

\* step 5: latest_mail = [xserver_mails[0]]
LatestMail(mails) == << mails[1] >>

\* get_verification_code_from_cloudmail, steps 5 and 6, with _save_mail_to_json;
\* a failed write is caught by the try of the fetcher, which returns None
save_mail_to_json ==
  /\ pc = "fetch_save"
  /\ \E written \in BOOLEAN :
       /\ io_failed' = ~written
       /\ IF written
            THEN saved_file' = LatestMail(xserver_mails) /\ pc' = "fetch_extract"
            ELSE saved_file' = saved_file /\ pc' = "code_result"
  /\ UNCHANGED << mainVars, browserVars, current_url, verification_result,
                  verification_code, token, mail_list, xserver_mails,
                  mail_content, token_calls, list_calls, list_code, typed_code,
                  recordVars, clicked, goto_calls, renewalGhost, auth_state, auth_seen,
                  reportVars, cleanup_calls, result >>

\* the value parsed is the mail list held in memory, whether or not the
\* file could be read
ReadBack_Memory(file, read) == file

\* json.load of the file of _extract_code_from_json: what was written, or
\* nothing when open or json.load raises
ReadBack(file, read) == IF read THEN file ELSE NoFile

\* get_verification_code_from_cloudmail, step 7, with _extract_code_from_json;
\* a failed read returns None
extract_code_from_json ==
  /\ pc = "fetch_extract"
  /\ \E read \in BOOLEAN :
       /\ io_failed' = ~read
       /\ mail_content' = MailContent(ReadBack(saved_file, read))
       /\ verification_code' = _extract_code_from_json(ReadBack(saved_file, read))
  /\ pc' = "code_result"
  /\ UNCHANGED << mainVars, browserVars, current_url, verification_result,
                  token, mail_list, xserver_mails, saved_file, token_calls,
                  list_calls, list_code, typed_code, recordVars, clicked,
                  goto_calls, renewalGhost, auth_state, auth_seen, reportVars,
                  cleanup_calls, result >>

\* handle_code_input_page, the test of the fetched code; the locals of the
\* fetcher are gone once it has returned
check_fetched_code ==
  /\ pc = "code_result"
  /\ IF verification_code # NoCode
       THEN /\ pc' = "input_code"
            /\ UNCHANGED << verification_result, auth_state >>
       ELSE /\ verification_result' = "False"
            /\ auth_state' = "Failed"
            /\ pc' = "after_verify"
  /\ mail_list' = <<>>
  /\ xserver_mails' = <<>>
  /\ mail_content' = <<>>
  /\ io_failed' = FALSE
  /\ list_code' = NoResponse
  /\ UNCHANGED << mainVars, browserVars, current_url, verification_code, token,
                  saved_file, token_calls, list_calls, typed_code, recordVars,
                  clicked, goto_calls, renewalGhost, auth_seen, reportVars,
                  cleanup_calls, result >>

\* input_verification_code
input_verification_code ==
  /\ pc = "input_code"
  /\ \E o \in {"fill_failed", "submit_missing", "click_failed", "submitted"} :
       /\ typed_code' = IF o = "fill_failed" THEN typed_code ELSE verification_code
       /\ IF o = "submitted"
            THEN /\ Click("code_submit")
                 /\ verification_result' = "True"
                 /\ UNCHANGED auth_state
            ELSE /\ verification_result' = "False"
                 /\ auth_state' = "Failed"
                 /\ UNCHANGED clicked
  /\ pc' = "after_verify"
  /\ UNCHANGED << mainVars, browserVars, current_url, fetchVars, recordVars,
                  goto_calls, renewalGhost, auth_seen, reportVars, cleanup_calls,
                  result >>

\* run, step 5: the verification result is logged and the run goes on
after_verification ==
  /\ pc = "after_verify"
  /\ pc' = "login_result"
  /\ UNCHANGED << mainVars, browserVars, current_url, verification_result,
                  fetchVars, typed_code, recordVars, clicked, goto_calls,
                  renewalGhost, auth_state, auth_seen, reportVars, cleanup_calls, result >>

-----------------------------------------------------------------------------
(* handle_login_result and the RenewalFlow handlers.  Every handler below   *)
(* is called from inside handle_login_result, catches its own exceptions    *)
(* and its return value is ignored, so leaving the chain at any point       *)
(* continues at "return True" of handle_login_result: pc = "readme".        *)

\* variables no RenewalFlow handler touches
outsideRenewal ==
  << mainVars, browserVars, verification_result, fetchVars, typed_code,
     goto_calls, auth_state, auth_seen, reportVars, cleanup_calls, result >>

\* wait for a control, click it, and continue at next when the click went through
ClickControl(c, next) ==
  \E o \in ClickOutcomes :
    /\ IF o = "clicked" THEN Click(c) /\ pc' = next
       ELSE UNCHANGED clicked /\ pc' = "readme"
    /\ control_missing' = (control_missing \/ o = "not_found")

\* a URL check that goes on to the next step whatever URL it reads
CheckUrl_NoAbort(expected, reached, next) ==
  \E url \in URLs :
    /\ current_url' = url
    /\ renewal_state' = reached
    /\ pc' = next
    /\ mismatch_seen' = (mismatch_seen \/ ~Contains(expected, url))

\* read page.url and compare it with the expected URL of the step
CheckUrl(expected, reached, next) ==
  \E url \in URLs :
    /\ current_url' = url
    /\ IF Contains(expected, url)
         THEN /\ renewal_state' = reached
              /\ pc' = next
              /\ UNCHANGED mismatch_seen
         ELSE /\ mismatch_seen' = TRUE
              /\ pc' = "readme"
              /\ UNCHANGED renewal_state

\* a login-result check that records Failed when the landing URL is missed
handle_login_result_RecordsFailed ==
  /\ pc = "login_result"
  /\ \E url \in URLs :
       /\ current_url' = url
       /\ IF SameUrl(url, success_url)
            THEN /\ auth_state' = "Dashboard"
                 /\ renewal_state' = "Dashboard"
                 /\ pc' = "game_button"
                 /\ UNCHANGED << result, renewal_status >>
            ELSE /\ auth_state' = "Failed"
                 /\ renewal_status' = "Failed"
                 /\ ReturnFalse
                 /\ UNCHANGED renewal_state
  /\ UNCHANGED << mainVars, browserVars, verification_result, fetchVars,
                  typed_code, old_expiry_time, new_expiry_time, clicked,
                  goto_calls, signalVars, notice_present, mismatch_seen,
                  control_missing, auth_seen, reportVars, cleanup_calls >>

\* handle_login_result, the test of the landing URL
handle_login_result ==
  /\ pc = "login_result"
  /\ \E url \in URLs :
       /\ current_url' = url
       /\ IF SameUrl(url, success_url)
            THEN /\ auth_state' = "Dashboard"
                 /\ renewal_state' = "Dashboard"
                 /\ pc' = "game_button"
                 /\ UNCHANGED result
            ELSE /\ auth_state' = "Failed"
                 /\ ReturnFalse
                 /\ UNCHANGED renewal_state
  /\ UNCHANGED << mainVars, browserVars, verification_result, fetchVars,
                  typed_code, recordVars, clicked, goto_calls, signalVars, notice_present,
                  mismatch_seen, control_missing, auth_seen, reportVars,
                  cleanup_calls >>

\* handle_login_result, the game-management link
click_game_button ==
  /\ pc = "game_button"
  /\ ClickControl("game_management", "verify_game")
  /\ UNCHANGED << outsideRenewal, current_url, recordVars, signalVars, notice_present,
                  renewal_state, mismatch_seen >>

\* handle_login_result, the test of the game-management URL
verify_game_page ==
  /\ pc = "verify_game"
  /\ CheckUrl(expected_game_url, "ManagementPage", "time_info")
  /\ UNCHANGED << outsideRenewal, recordVars, clicked, signalVars, notice_present,
                  control_missing >>

\* a step that ends the flow when no expiry date could be read
get_server_time_info_NeedsDate ==
  /\ pc = "time_info"
  /\ \E o \in {"locator_failed", "no_element", "no_date", "date"}, d \in OldDates :
       /\ old_expiry_time' = IF o = "date" THEN d ELSE old_expiry_time
       /\ pc' = IF o = "date" THEN "click_upgrade" ELSE "readme"
  /\ UNCHANGED << outsideRenewal, current_url, renewal_status, new_expiry_time,
                  clicked, renewalGhost >>

\* get_server_time_info with format_expiry_date, up to the call of click_upgrade_button
get_server_time_info ==
  /\ pc = "time_info"
  /\ \E o \in {"locator_failed", "no_element", "no_date", "date"}, d \in OldDates :
       old_expiry_time' = IF o = "date" THEN d ELSE old_expiry_time
  /\ pc' = "click_upgrade"
  /\ UNCHANGED << outsideRenewal, current_url, renewal_status, new_expiry_time,
                  clicked, renewalGhost >>

\* click_upgrade_button
click_upgrade_button ==
  /\ pc = "click_upgrade"
  /\ ClickControl("upgrade", "verify_upgrade")
  /\ UNCHANGED << outsideRenewal, current_url, recordVars, signalVars, notice_present,
                  renewal_state, mismatch_seen >>

\* verify_upgrade_page
verify_upgrade_page ==
  /\ pc = "verify_upgrade"
  /\ CheckUrl(expected_upgrade_url, "UpgradePage", "check_restriction")
  /\ UNCHANGED << outsideRenewal, recordVars, clicked, signalVars, notice_present,
                  control_missing >>

\* outcomes of the inner try of check_extension_restriction: the notice is
\* located and read, located but text_content raises, or not located
RestrictionOutcomes == {"notice_read", "notice_text_failed", "no_notice"}

\* the extension is attempted although the notice was read
AfterRestriction_NoStop(o) == "click_extension"

\* where check_extension_restriction goes after the inner try
AfterRestriction(o) == IF o = "notice_read" THEN "readme" ELSE "click_extension"

\* a check that records Unexpired as soon as the notice is located
check_extension_restriction_MarksOnSight ==
  /\ pc = "check_restriction"
  /\ \E o \in RestrictionOutcomes :
       /\ notice_present' = (o # "no_notice")
       /\ renewal_status' = IF o # "no_notice" THEN "Unexpired" ELSE renewal_status
       /\ renewal_state' = IF o = "notice_read" THEN "Blocked" ELSE renewal_state
       /\ pc' = AfterRestriction(o)
  /\ UNCHANGED << outsideRenewal, current_url, old_expiry_time, new_expiry_time,
                  clicked, signalVars, mismatch_seen, control_missing >>

\* check_extension_restriction with perform_extension_operation
check_extension_restriction ==
  /\ pc = "check_restriction"
  /\ \E o \in RestrictionOutcomes :
       /\ notice_present' = (o # "no_notice")
       /\ renewal_status' = IF o = "notice_read" THEN "Unexpired" ELSE renewal_status
       /\ renewal_state' = IF o = "notice_read" THEN "Blocked" ELSE renewal_state
       /\ pc' = AfterRestriction(o)
  /\ UNCHANGED << outsideRenewal, current_url, old_expiry_time, new_expiry_time,
                  clicked, signalVars, mismatch_seen, control_missing >>

\* click_extension_button
click_extension_button ==
  /\ pc = "click_extension"
  /\ ClickControl("extend", "verify_input")
  /\ UNCHANGED << outsideRenewal, current_url, recordVars, signalVars, notice_present,
                  renewal_state, mismatch_seen >>

\* verify_extension_input_page
verify_extension_input_page ==
  /\ pc = "verify_input"
  /\ CheckUrl(expected_input_url, "ExtendInputPage", "click_confirmation")
  /\ UNCHANGED << outsideRenewal, recordVars, clicked, signalVars, notice_present,
                  control_missing >>

\* click_confirmation_button
click_confirmation_button ==
  /\ pc = "click_confirmation"
  /\ ClickControl("confirm", "verify_conf")
  /\ UNCHANGED << outsideRenewal, current_url, recordVars, signalVars, notice_present,
                  renewal_state, mismatch_seen >>

\* verify_extension_conf_page, up to the call of record_extension_time
verify_extension_conf_page ==
  /\ pc = "verify_conf"
  /\ CheckUrl(expected_conf_url, "ExtendConfirmPage", "record_time")
  /\ UNCHANGED << outsideRenewal, recordVars, clicked, signalVars, notice_present,
                  control_missing >>

\* record_extension_time
record_extension_time ==
  /\ pc = "record_time"
  /\ \E o \in {"row_missing", "no_td", "text"}, t \in NewDates :
       new_expiry_time' = IF o = "text" THEN t ELSE new_expiry_time
  /\ pc' = "final_button"
  /\ UNCHANGED << outsideRenewal, current_url, renewal_status, old_expiry_time,
                  clicked, renewalGhost >>

\* a final step that verifies the result even when the button was not clicked
find_final_extension_button_VerifiesAnyway ==
  /\ pc = "final_button"
  /\ \E o \in ClickOutcomes :
       /\ IF o = "clicked" THEN Click("final_extend") ELSE UNCHANGED clicked
       /\ control_missing' = (control_missing \/ o = "not_found")
  /\ pc' = "verify_success"
  /\ UNCHANGED << outsideRenewal, current_url, recordVars, signalVars, notice_present,
                  renewal_state, mismatch_seen >>

\* find_final_extension_button
find_final_extension_button ==
  /\ pc = "final_button"
  /\ ClickControl("final_extend", "verify_success")
  /\ UNCHANGED << outsideRenewal, current_url, recordVars, signalVars, notice_present,
                  renewal_state, mismatch_seen >>

\* a status that needs both signals
ExtensionStatus_Both(url_success, text_success_, raised) ==
  IF raised THEN "Failed"
  ELSE IF url_success /\ text_success_ THEN "Success" ELSE "Failed"

\* the status verify_extension_success records; raised: the try body failed
\* before the two signals were combined
ExtensionStatus(url_success, text_success_, raised) ==
  IF raised THEN "Failed"
  ELSE IF url_success \/ text_success_ THEN "Success" ELSE "Failed"

\* verify_extension_success
verify_extension_success ==
  /\ pc = "verify_success"
  /\ \E url \in URLs, found \in BOOLEAN, raised \in BOOLEAN :
       /\ current_url' = url
       /\ text_success' = found
       /\ verify_raised' = raised
       /\ renewal_status' =
            ExtensionStatus(Contains(expected_do_url, url), found, raised)
  /\ renewal_state' = "ExtendDonePage"
  /\ pc' = "readme"
  /\ UNCHANGED << outsideRenewal, old_expiry_time, new_expiry_time, clicked,
                  notice_present, mismatch_seen, control_missing >>

-----------------------------------------------------------------------------
(* Report, exception path and cleanup of run *)

\* a default that is applied to None only, not to the empty string
OrUnknown_NoneOnly(v) == IF v = NoneVal THEN "Unknown" ELSE v

\* Python "value or 'Unknown'"
OrUnknown(v) == IF v = NoneVal \/ v = "" THEN "Unknown" ELSE v

\* the lines generate_readme writes for the renewal record
ReadmeContent(status, old, new) ==
  [ status |-> IF status \in {"Success", "Unexpired", "Failed"} THEN status ELSE "Unknown",
    old    |-> OrUnknown(old),
    new    |-> IF status = "Success" THEN OrUnknown(new) ELSE Omitted ]

\* generate_readme: the file write can fail, which is caught and logged
GenerateReadme ==
  /\ readme_calls' = readme_calls + 1
  /\ \E written \in BOOLEAN :
       report' = IF written
                   THEN ReadmeContent(renewal_status, old_expiry_time, new_expiry_time)
                   ELSE report

\* run after handle_login_result returned True: the report is generated
generate_readme ==
  /\ pc = "readme"
  /\ GenerateReadme
  /\ pc' = "final_sleep"
  /\ UNCHANGED << mainVars, browserVars, current_url, verification_result,
                  fetchVars, typed_code, recordVars, clicked, goto_calls,
                  renewalGhost, auth_state, auth_seen, cleanup_calls, result >>

\* a return value of run that follows the renewal status
return_true_ChecksStatus ==
  /\ pc = "final_sleep"
  /\ result' = IF renewal_status \in {"Success", "Unexpired"} THEN "True" ELSE "False"
  /\ pc' = "cleanup"
  /\ UNCHANGED << mainVars, browserVars, current_url, verification_result,
                  fetchVars, typed_code, recordVars, clicked, goto_calls,
                  renewalGhost, auth_state, auth_seen, reportVars, cleanup_calls >>

\* run, the final wait and "return True"
return_true ==
  /\ pc = "final_sleep"
  /\ result' = "True"
  /\ pc' = "cleanup"
  /\ UNCHANGED << mainVars, browserVars, current_url, verification_result,
                  fetchVars, typed_code, recordVars, clicked, goto_calls,
                  renewalGhost, auth_state, auth_seen, reportVars, cleanup_calls >>

\* positions of run whose statements are not guarded by a handler's own try
RunLevel == {"validate", "after_verify", "readme", "final_sleep"}

\* an Exception reaches the try block of run
run_raise ==
  /\ pc \in RunLevel
  /\ pc' = "except"
  /\ UNCHANGED << mainVars, browserVars, current_url, verification_result,
                  fetchVars, typed_code, recordVars, clicked, goto_calls,
                  renewalGhost, auth_state, auth_seen, reportVars, cleanup_calls, result >>

\* run, the except clause
run_except ==
  /\ pc = "except"
  /\ GenerateReadme
  /\ ReturnFalse
  /\ UNCHANGED << mainVars, browserVars, current_url, verification_result,
                  fetchVars, typed_code, recordVars, clicked, goto_calls,
                  renewalGhost, auth_state, auth_seen, cleanup_calls >>

\* cleanup: context.close() can raise, and then browser.close() is not reached
cleanup ==
  /\ pc = "cleanup"
  /\ cleanup_calls' = cleanup_calls + 1
  /\ \E context_raises \in BOOLEAN, browser_raises \in BOOLEAN :
       LET skipped == context = "open" /\ context_raises
       IN /\ context' = IF context = "open" /\ ~context_raises THEN "closed" ELSE context
          /\ browser' = IF browser = "open" /\ ~skipped /\ ~browser_raises
                          THEN "closed" ELSE browser
  /\ pc' = "done"
  /\ UNCHANGED << mainVars, current_url, verification_result, fetchVars,
                  typed_code, recordVars, clicked, goto_calls, renewalGhost,
                  auth_state, auth_seen, reportVars, result >>

Next ==
  \/ main_start
  \/ main_exit
  \/ validate_config
  \/ setup_browser
  \/ navigate_to_login
  \/ perform_login
  \/ handle_verification_page
  \/ send_verification_code
  \/ handle_code_input_page
  \/ find_code_input
  \/ grace_wait
  \/ get_mail_api_token
  \/ get_mail_list
  \/ filter_mails
  \/ save_mail_to_json
  \/ extract_code_from_json
  \/ check_fetched_code
  \/ input_verification_code
  \/ after_verification
  \/ handle_login_result
  \/ click_game_button
  \/ verify_game_page
  \/ get_server_time_info
  \/ click_upgrade_button
  \/ verify_upgrade_page
  \/ check_extension_restriction
  \/ click_extension_button
  \/ verify_extension_input_page
  \/ click_confirmation_button
  \/ verify_extension_conf_page
  \/ record_extension_time
  \/ find_final_extension_button
  \/ verify_extension_success
  \/ generate_readme
  \/ return_true
  \/ run_raise
  \/ run_except
  \/ cleanup

Spec == Init /\ [][Next]_vars

\* the run always takes its next step: every wait of the code is bounded
FairSpec == Spec /\ WF_vars(Next)

-----------------------------------------------------------------------------
(* Properties *)

NoRenewalClick == \A c \in RenewalControls : clicked[c] = 0

\* pc values after the RenewalFlow chain has been left
AfterRenewal == {"readme", "final_sleep", "except", "cleanup", "done", "exited"}

\* C1: the renewal status starts as Unknown, and once it is Success,
\* Unexpired or Failed no later step of the run changes it.
C1_StatusWriteOnce ==
  /\ renewal_status = "Unknown"
  /\ [][renewal_status # "Unknown" => renewal_status' = renewal_status]_vars

\* a run that set the status and then went on to its end
C1_Witness ==
  /\ pc = "done"
  /\ renewal_status \in {"Success", "Unexpired", "Failed"}
  /\ readme_calls >= 1

C3_UrlDecidesAuthState ==
  [][ /\ pc = "verify" =>
           IF Contains(challenge_pattern, current_url')
             THEN auth_state' = "ChallengePage" /\ pc' = "send_code"
             ELSE auth_state' = "Submitting" /\ pc' = "after_verify"
      /\ pc = "login_result" =>
           IF current_url' = success_url
             THEN auth_state' = "Dashboard" /\ renewal_state' = "Dashboard"
             ELSE /\ auth_state' = "Failed"
                  /\ result' = "False"
                  /\ pc' = "cleanup"
                  /\ renewal_state' = "None"
                  /\ \A c \in RenewalControls : clicked'[c] = 0 ]_vars

\* the landing URL with a query string was observed and the run failed
C3_Witness ==
  /\ current_url = success_url \o <<"?sid=1">>
  /\ auth_state = "Failed"
  /\ clicked["send_code"] = 0
  /\ result = "False"
  /\ pc = "done"

\* C4 as stated: after the send-code click a URL without the code-entry
\* pattern ends AuthFlow in Failed, so Dashboard is reached only after a
\* code was submitted.
C4_NoCodePageIsFailure ==
  /\ [][pc = "code_input" =>
          IF Contains(code_input_pattern, current_url')
            THEN auth_state' = "CodeEntryPage"
            ELSE auth_state' = "Failed"]_vars
  /\ [](auth_state = "Dashboard" /\ clicked["send_code"] > 0 => clicked["code_submit"] > 0)

\* C4 amended: after the send-code click AuthFlow moves to CodeEntryPage
\* only when the URL contains the code-entry pattern; otherwise the
\* verification counts as handled and the run continues with the
\* login-result check without fetching or submitting a code.
C4_NoCodePageCountsAsHandled ==
  /\ [][pc = "code_input" =>
          IF Contains(code_input_pattern, current_url')
            THEN auth_state' = "CodeEntryPage" /\ pc' = "code_field"
                 /\ verification_result' = NoneVal
            ELSE /\ auth_state' = "ChallengePage"
                 /\ verification_result' = "True"
                 /\ pc' = "after_verify"]_vars
  /\ [](auth_state = "CodeEntryPage" => Contains(code_input_pattern, current_url))
  /\ [](clicked["code_submit"] > 0 \/ token_calls > 0
          => clicked["send_code"] = 1 /\ auth_state # "ChallengePage")

\* Dashboard was reached after the send-code click without any code
C4_Witness ==
  /\ clicked["send_code"] = 1
  /\ auth_state = "Dashboard"
  /\ verification_result = "True"
  /\ token_calls = 0
  /\ clicked["code_submit"] = 0

\* C5: when the URL observed after a RenewalFlow click is not the expected
\* one, no further control is activated and the final status is Failed.
C5_MismatchRecordsFailed ==
  mismatch_seen =>
    /\ pc \in AfterRenewal
    /\ pc = "done" => renewal_status = "Failed"

\* C6: when a RenewalFlow control is not found within its timeout, the flow
\* is aborted and the final status is Failed.
C6_MissingControlRecordsFailed ==
  control_missing =>
    /\ pc \in AfterRenewal
    /\ pc = "done" => renewal_status = "Failed"

\* C7: on every terminating path of run the report generation was invoked
\* before the run ended.
C7_ReportOnEveryPath == pc = "done" => readme_calls >= 1

\* C8 as stated: every emitted report contains the status, the old expiry
\* and the new expiry, whatever the status.
C8_ReportHasAllFields ==
  report # NoReport =>
    /\ report.status \in StatusValues
    /\ report.old # Omitted
    /\ report.new # Omitted

\* C8 amended: every emitted report contains the status and the old expiry,
\* an unset old expiry as "Unknown"; the new expiry is contained exactly
\* when the status is Success, an unset one as "Unknown".
C8_ReportFields ==
  report # NoReport =>
    /\ report.status = renewal_status
    /\ report.old = IF old_expiry_time = NoneVal THEN "Unknown" ELSE old_expiry_time
    /\ report.new = IF renewal_status # "Success" THEN Omitted
                    ELSE IF new_expiry_time \in {NoneVal, ""} THEN "Unknown"
                    ELSE new_expiry_time

\* a Success report of a run that read an empty new-expiry cell and no old expiry
C8_Witness ==
  /\ report # NoReport
  /\ report.status = "Success"
  /\ new_expiry_time = ""
  /\ old_expiry_time = NoneVal

\* C9: cleanup is invoked exactly once on every exit path of run and is the
\* last step: nothing is navigated, clicked, fetched or reported after it.
C9_CleanupOnceAndLast ==
  /\ [](/\ cleanup_calls <= 1
        /\ (pc = "done" \/ (pc = "exited" /\ result # NoneVal)) <=> cleanup_calls = 1
        /\ result # NoneVal => pc \in {"cleanup", "done", "exited"})
  /\ [][cleanup_calls >= 1 =>
          UNCHANGED << clicked, goto_calls, current_url, token_calls,
                       list_calls, typed_code, readme_calls, report,
                       recordVars, result >>]_vars

\* the run ended through the except clause of run
C9_Witness ==
  /\ pc = "done"
  /\ cleanup_calls = 1
  /\ result = "False"
  /\ readme_calls >= 1
  /\ browser # "none"

\* C10: when the restriction notice is present on the UpgradePage the
\* status becomes Unexpired and no extend, confirm or final control is
\* activated afterwards.
C10_NoticeStopsFlow ==
  notice_present =>
    /\ renewal_status = "Unexpired"
    /\ clicked["extend"] = 0
    /\ clicked["confirm"] = 0
    /\ clicked["final_extend"] = 0

\* C11: the check after the final extend action records Success exactly
\* when the observed URL contains the "do" endpoint or the success text was
\* found, and Failed when neither holds or when the check raised.
C11_SuccessIsOrOfSignals ==
  [][pc = "verify_success" =>
       renewal_status' =
         IF verify_raised' THEN "Failed"
         ELSE IF Contains(expected_do_url, current_url') \/ text_success'
                THEN "Success"
                ELSE "Failed"]_vars

\* the success text was found on a page whose URL is not the "do" endpoint
C11_Witness ==
  /\ clicked["final_extend"] > 0
  /\ renewal_state = "ExtendDonePage"
  /\ text_success
  /\ ~Contains(expected_do_url, current_url)
  /\ renewal_status = "Success"

C13_FirstMatchSelected ==
  LET Matches(mail) == Strip(mail.subject) = cloudmail_subject
      NoMatch == \A i \in 1..Len(mail_list) : ~Matches(mail_list[i])
  IN /\ pc \in {"fetch_save", "fetch_extract"} => ~NoMatch
     /\ pc = "fetch_extract" =>
          /\ Len(saved_file) = 1
          /\ \E i \in 1..Len(mail_list) :
               /\ saved_file[1] = mail_list[i]
               /\ Matches(mail_list[i])
               /\ \A j \in 1..(i - 1) : ~Matches(mail_list[j])
     /\ pc = "code_result" /\ NoMatch => verification_code = NoCode

\* two different matching mails were returned and the first one was selected
C13_Witness ==
  /\ pc = "fetch_extract"
  /\ Len(xserver_mails) = 2
  /\ xserver_mails[1] # xserver_mails[2]
  /\ saved_file = << mail_list[1] >>

\* C14: for a mail body that contains the marker followed by a colon and a
\* run of 4 to 8 digits the extractor returns that run, the one of the first
\* occurrence; for a body without the marker it returns no code.
C14_MarkerColonDigitsExtracted ==
  LET body == mail_content
      \* the digit run when the marker at i is followed by a colon and 4 to 8
      \* digits, with whitespace allowed around the colon
      RunAt(i) ==
        IF body[i] # Marker THEN <<>>
        ELSE LET c == i + 1 + RunLen(body, i + 1, Whitespace)
             IN IF c > Len(body) \/ body[c] \notin Colons THEN <<>>
                ELSE LET d == c + 1 + RunLen(body, c + 1, Whitespace)
                         n == RunLen(body, d, Digits)
                     IN IF n \in 4..8 THEN SubSeq(body, d, d + n - 1) ELSE <<>>
      hits == {i \in 1..Len(body) : RunAt(i) # <<>>}
      first == CHOOSE i \in hits : \A k \in hits : i <= k
  IN pc = "code_result" /\ body # <<>> =>
       /\ hits # {} => verification_code = RunAt(first)
       /\ (\A i \in 1..Len(body) : body[i] # Marker) => verification_code = NoCode

\* C15: the process exits with code 0 when the run ended in overall success
\* and with a non-zero code on every other terminating path of main, the
\* paths on which main rejects the configuration included.
C15_ExitZeroIffSuccess ==
  pc = "exited" => (exit_code = 0 <=> result = "True")

\* C16: when the account identifier or the secret is missing the run fails
\* before any navigation: no browser is launched, no page is visited, no mail
\* call is made, the status stays Unknown and the run returns failure.
C16_MissingCredentialsFailRun ==
  pc = "exited" /\ (~Truthy(LOGIN_EMAIL) \/ ~Truthy(LOGIN_PASSWORD)) =>
    /\ browser = "none"
    /\ goto_calls = 0
    /\ token_calls = 0
    /\ list_calls = 0
    /\ renewal_status = "Unknown"
    /\ result = "False"

\* the steps of AuthFlow and RenewalFlow that read page.url
UrlSteps ==
  {"verify", "code_input", "login_result", "verify_game", "verify_upgrade",
   "verify_input", "verify_conf", "verify_success"}

\* position, AuthFlow state and RenewalFlow state after the URL step at
\* position p has read url
NextState(p, url) ==
  LET Check(expected, next, reached, before) ==
        IF Contains(expected, url)
          THEN << next, "Dashboard", reached >>
          ELSE << "readme", "Dashboard", before >>
  IN CASE p = "verify" ->
            IF Contains(challenge_pattern, url)
              THEN << "send_code", "ChallengePage", "None" >>
              ELSE << "after_verify", "Submitting", "None" >>
       [] p = "code_input" ->
            IF Contains(code_input_pattern, url)
              THEN << "code_field", "CodeEntryPage", "None" >>
              ELSE << "after_verify", "ChallengePage", "None" >>
       [] p = "login_result" ->
            IF url = success_url
              THEN << "game_button", "Dashboard", "Dashboard" >>
              ELSE << "cleanup", "Failed", "None" >>
       [] p = "verify_game" ->
            Check(expected_game_url, "time_info", "ManagementPage", "Dashboard")
       [] p = "verify_upgrade" ->
            Check(expected_upgrade_url, "check_restriction", "UpgradePage", "ManagementPage")
       [] p = "verify_input" ->
            Check(expected_input_url, "click_confirmation", "ExtendInputPage", "UpgradePage")
       [] p = "verify_conf" ->
            Check(expected_conf_url, "record_time", "ExtendConfirmPage", "ExtendInputPage")
       [] p = "verify_success" -> << "readme", "Dashboard", "ExtendDonePage" >>

C18_FetchProtocol ==
  /\ [][/\ pc' = "fetch_token" /\ pc # "fetch_token" => pc = "fetch_wait"
        /\ pc' = "fetch_list" /\ pc # "fetch_list" => pc = "fetch_token"
        /\ token_calls' # token_calls =>
             pc = "fetch_token" /\ token_calls = 0 /\ token_calls' = 1
        /\ list_calls' # list_calls =>
             /\ pc = "fetch_list" /\ list_calls = 0 /\ list_calls' = 1
             /\ token_calls = 1 /\ token # NoneVal]_vars
  /\ [](/\ token_calls = 1 /\ token = NoneVal => list_calls = 0
        /\ pc = "code_result" /\ (token = NoneVal \/ list_code \notin {NoResponse, 200})
             => verification_code = NoCode)

\* the token call failed and the fetch ended without a list query
C18_Witness ==
  /\ pc = "code_result"
  /\ token_calls = 1
  /\ token = NoneVal
  /\ list_calls = 0
  /\ verification_code = NoCode

\* C19: whenever the final extend action has been activated the new expiry
\* was read from the confirm page and stored before, so the action is never
\* submitted while it is unset, and it is never written after the action.
C19_NewExpiryStoredBeforeFinal ==
  /\ [](clicked["final_extend"] > 0 => new_expiry_time # NoneVal)
  /\ [][clicked["final_extend"] > 0 => new_expiry_time' = new_expiry_time]_vars

\* C20: the final extend action is activated only after the run went, in
\* this order, through Dashboard, the ManagementPage check, the UpgradePage
\* check, the finding that there is no restriction notice, the
\* ExtendInputPage check and the ExtendConfirmPage check; no state of the
\* chain is skipped or visited out of order.
C20_FinalOnlyAfterOrderedChain ==
  [][/\ renewal_state' # renewal_state =>
          << renewal_state, renewal_state' >> \in
            { << "None", "Dashboard" >>,
              << "Dashboard", "ManagementPage" >>,
              << "ManagementPage", "UpgradePage" >>,
              << "UpgradePage", "Blocked" >>,
              << "UpgradePage", "ExtendInputPage" >>,
              << "ExtendInputPage", "ExtendConfirmPage" >>,
              << "ExtendConfirmPage", "ExtendDonePage" >> }
     /\ clicked'["final_extend"] # clicked["final_extend"] =>
          /\ renewal_state = "ExtendConfirmPage"
          /\ ~notice_present
          /\ \A c \in RenewalControls \ {"final_extend"} : clicked[c] = 1]_vars

\* C21: the fetcher writes the selected message to the file before anything
\* is parsed, the code is extracted from what is stored in the file, and
\* when writing or re-reading the file fails the fetch returns no code.
C21_PersistBeforeParse ==
  /\ [][/\ pc' = "fetch_extract" /\ pc # "fetch_extract" =>
             pc = "fetch_save" /\ saved_file' # NoFile /\ ~io_failed'
        /\ (mail_content' # mail_content \/ verification_code' # verification_code)
             /\ pc # "code_result" /\ pc # "fetch_token" =>
             /\ pc = "fetch_extract"
             /\ saved_file # NoFile
             /\ verification_code' \in
                  {NoCode, _extract_verification_code(MailContent(saved_file))}]_vars
  /\ [](pc = "code_result" /\ io_failed =>
          verification_code = NoCode /\ mail_content = <<>>)
  /\ [](pc = "code_result" /\ verification_code # NoCode =>
          /\ saved_file # NoFile
          /\ verification_code = _extract_verification_code(MailContent(saved_file)))

\* the file holds a mail with a code, reading it back failed, no code is returned
C21_Witness ==
  /\ pc = "code_result"
  /\ io_failed
  /\ saved_file # NoFile
  /\ _extract_code_from_json(saved_file) # NoCode
  /\ verification_code = NoCode

\* C22: whenever a browser was launched during the run, the browser is
\* closed by the time the run has ended, on every outcome, the one where
\* closing the browser context raises included.
C22_BrowserDestroyedAtEnd ==
  pc \in {"done", "exited"} /\ browser # "none" => browser = "closed"

\* C23: every run terminates: whatever the site and the mail service do, a
\* run that has started reaches cleanup and returns.
C23_RunTerminates ==
  (pc = "validate") ~> (pc = "done" /\ cleanup_calls = 1 /\ result # NoneVal)

\* a run that went through the mail fetch and the whole renewal chain returned
C23_Witness ==
  /\ pc = "done"
  /\ token_calls = 1
  /\ clicked["final_extend"] = 1
  /\ result = "True"

\* C24: no step is retried: in one run each control is activated at most
\* once, the fetcher is invoked at most once and at most one code is
\* submitted.
C24_NoRetry ==
  /\ [](/\ \A c \in Controls : clicked[c] <= 1
        /\ token_calls <= 1
        /\ list_calls <= 1)
  /\ [][/\ pc' = "fetch_wait" /\ pc # "fetch_wait" =>
             token_calls = 0 /\ list_calls = 0 /\ saved_file = NoFile
        /\ typed_code' # typed_code => typed_code = NoCode
        /\ \A c \in Controls : clicked'[c] # clicked[c] => clicked[c] = 0]_vars

\* every control of both flows was activated, each once, with one fetch
C24_Witness ==
  /\ pc = "done"
  /\ \A c \in Controls : clicked[c] = 1
  /\ token_calls = 1
  /\ typed_code # NoCode

\* C25: every code the fetcher returns, and so every value typed into the
\* code-entry field, is a string of at least 4 and at most 8 decimal digits.
C25_CodeIsFourToEightDigits ==
  LET IsCode(code) ==
        /\ Len(code) \in 4..8
        /\ \A i \in 1..Len(code) : code[i] \in Digits
  IN /\ verification_code # NoCode => IsCode(verification_code)
     /\ typed_code # NoCode => IsCode(typed_code)

\* the stored mail has a run of nine digits and eight of them were typed
C25_Witness ==
  /\ typed_code # NoCode
  /\ Len(typed_code) = 8
  /\ clicked["code_submit"] = 1
  /\ RunLen(MailContent(saved_file), 4, Digits) = 9

\* C26: the old expiry is written at most once per run, only before the
\* upgrade control is activated, and no later step changes it; when the
\* expiry text cannot be read it stays unset and the flow still goes on to
\* the upgrade control.
C26_OldExpiryWrittenOnceBeforeUpgrade ==
  [][/\ old_expiry_time' # old_expiry_time =>
          /\ pc = "time_info"
          /\ old_expiry_time = NoneVal
          /\ clicked["upgrade"] = 0
     /\ pc = "time_info" => pc' = "click_upgrade"
     /\ clicked["upgrade"] > 0 => old_expiry_time' = old_expiry_time]_vars

\* the upgrade control was activated although no expiry date had been read
C26_Witness ==
  /\ clicked["upgrade"] = 1
  /\ old_expiry_time = NoneVal
  /\ renewal_state = "UpgradePage"

\* C27: the renewal record (old expiry, new expiry, status) is changed by
\* RenewalFlow steps only: AuthFlow, the fetcher, the report and cleanup
\* leave it as it is, so a run whose AuthFlow ends in Failed ends with
\* status Unknown and both expiries unset.
C27_RecordChangedByRenewalFlowOnly ==
  /\ [][(pc \notin {"time_info", "check_restriction", "record_time", "verify_success"})
          => UNCHANGED recordVars]_vars
  /\ [](auth_state # "Dashboard" =>
          /\ renewal_status = "Unknown"
          /\ old_expiry_time = NoneVal
          /\ new_expiry_time = NoneVal)

\* a code was fetched and submitted, the landing URL was missed, the run ended
C27_Witness ==
  /\ pc = "done"
  /\ auth_state = "Failed"
  /\ clicked["code_submit"] = 1
  /\ readme_calls = 0
  /\ renewal_status = "Unknown"

\* C28: the value run returns depends on AuthFlow only: once the landing URL
\* was matched exactly no RenewalFlow step changes the outcome and run
\* returns success, with exit code 0, whatever the renewal status is; the
\* only other outcome after the match is the except clause of run. Run
\* never returns success when the landing URL was not matched.
C28_ResultDependsOnAuthFlowOnly ==
  /\ [](result = "True" => auth_state = "Dashboard")
  /\ [](pc = "exited" /\ result # NoneVal => (exit_code = 0 <=> result = "True"))
  /\ [][/\ pc = "login_result" =>
             (pc' = "game_button" <=> current_url' = success_url)
        /\ auth_state = "Dashboard" /\ pc \notin {"final_sleep", "readme", "except"} =>
             result' = result /\ pc' \notin {"except", "cleanup"}
        /\ auth_state = "Dashboard" /\ result' # result =>
             \/ pc = "final_sleep" /\ result' = "True"
             \/ pc = "except" /\ result' = "False"]_vars

\* the process exited with code 0 after a renewal that was recorded as Failed
C28_Witness ==
  /\ pc = "exited"
  /\ exit_code = 0
  /\ result = "True"
  /\ renewal_status = "Failed"

\* C29: in every reachable state a renewal status other than Unknown implies
\* that the run reached Dashboard and passed the ManagementPage and the
\* UpgradePage URL checks; Success or Failed further implies that the final
\* extend action was activated.
C29_StatusImpliesProgress ==
  /\ renewal_status # "Unknown" =>
       /\ auth_state = "Dashboard"
       /\ clicked["game_management"] = 1
       /\ clicked["upgrade"] = 1
       /\ renewal_state \in {"UpgradePage", "Blocked", "ExtendInputPage",
                             "ExtendConfirmPage", "ExtendDonePage"}
  /\ renewal_status \in {"Success", "Failed"} =>
       /\ clicked["final_extend"] = 1
       /\ renewal_state = "ExtendDonePage"

\* the status is Failed after the final extend action found neither signal
C29_Witness ==
  /\ renewal_status = "Failed"
  /\ clicked["final_extend"] = 1
  /\ ~text_success
  /\ ~verify_raised
  /\ pc = "readme"

\* C30: status Unexpired and the final extend action exclude each other: the
\* final extend action is never activated after the status was set to
\* Unexpired, and the status is never Unexpired after the final extend
\* action was activated.
C30_UnexpiredExcludesFinalExtend ==
  /\ [](renewal_status = "Unexpired" => clicked["final_extend"] = 0)
  /\ [][/\ renewal_status = "Unexpired" =>
             clicked'["final_extend"] = clicked["final_extend"]
        /\ clicked["final_extend"] > 0 => renewal_status' # "Unexpired"]_vars

\* the run ended with status Unexpired and the extension was not attempted
C30_Witness ==
  /\ pc = "done"
  /\ renewal_status = "Unexpired"
  /\ renewal_state = "Blocked"
  /\ clicked["upgrade"] = 1
  /\ clicked["extend"] = 0

\* C31: the mail service is contacted only from CodeEntryPage: a token call
\* or a list query is made only after the challenge URL was observed, the
\* send-code control was activated once, the code-entry URL was observed and
\* the code input field was found, in that order; a run that never observed
\* the challenge URL makes no token call and no list query.
C31_MailOnlyFromCodeEntryPage ==
  /\ [][(token_calls' # token_calls \/ list_calls' # list_calls) =>
          /\ auth_state = "CodeEntryPage"
          /\ auth_seen = {"challenge_url", "code_entry_url", "code_field"}
          /\ clicked["send_code"] = 1
          /\ Contains(code_input_pattern, current_url)]_vars
  /\ [][/\ "challenge_url" \in auth_seen' \ auth_seen =>
             Contains(challenge_pattern, current_url')
        /\ clicked'["send_code"] # clicked["send_code"] =>
             auth_seen = {"challenge_url"}
        /\ "code_entry_url" \in auth_seen' \ auth_seen =>
             /\ auth_seen = {"challenge_url"}
             /\ clicked["send_code"] = 1
             /\ Contains(code_input_pattern, current_url')
        /\ "code_field" \in auth_seen' \ auth_seen =>
             auth_seen = {"challenge_url", "code_entry_url"}]_vars
  /\ []("challenge_url" \notin auth_seen => token_calls = 0 /\ list_calls = 0)

\* the token call and the list query were made on the code-entry page
C31_Witness ==
  /\ token_calls = 1
  /\ list_calls = 1
  /\ auth_state = "CodeEntryPage"
  /\ auth_seen = {"challenge_url", "code_entry_url", "code_field"}
  /\ clicked["send_code"] = 1
  /\ Contains(code_input_pattern, current_url)

=============================================================================
